---- MODULE Spec2Model ----
(***************************************************************************)
(* Momentary: the daily prompt scheduler, the capture window applied to    *)
(* inbound photos, the store they share, and the session tokens of the web *)
(* API (src/app/main.py, src/app/db.py, src/app/storage.py).               *)
(*                                                                         *)
(* Time.  An instant is an integer number of clock ticks since midnight of *)
(* day 0, UTC.  The calendar is scaled: a day has HoursPerDay hours of     *)
(* MinutesPerHour minutes of SecondsPerMinute ticks (24, 60 and 60 seconds *)
(* in the program).  A stored timestamp is the ISO-8601 text the store     *)
(* keeps, modelled by its fields (IsoFormat / FromIsoFormat).              *)
(*                                                                         *)
(* Optional values are sequences of length <= 1: <<>> is None and <<v>>    *)
(* is the value v.                                                         *)
(***************************************************************************)
EXTENDS Integers, Sequences, FiniteSets, TLC

\* ------------------------------------------------------------------ bounds
HoursPerDay == 2
MinutesPerHour == 2
SecondsPerMinute == 2
\* The clock runs over the instants 0 .. MaxClock.
MaxClock == 15

\* ------------------------------------------------------------- calendar
MinutesPerDay == HoursPerDay * MinutesPerHour
SecondsPerDay == MinutesPerDay * SecondsPerMinute
AllMinutes == 0 .. (MinutesPerDay - 1)

None == <<>>
Some(v) == <<v>>
IsSome(o) == Len(o) = 1
Get(o) == o[1]

\* datetime.date(): the calendar day of an instant.
DateOf(t) == t \div SecondsPerDay
\* datetime(year, month, day, hour, minute, tzinfo=utc): second 0 of that minute.
MakeDatetime(day, hour, minute) ==
    day * SecondsPerDay + (hour * MinutesPerHour + minute) * SecondsPerMinute
\* timestamp.hour * 60 + timestamp.minute
MinuteOfDay(t) ==
    LET secs == t % SecondsPerDay
        hour == secs \div (MinutesPerHour * SecondsPerMinute)
        minute == (secs % (MinutesPerHour * SecondsPerMinute)) \div SecondsPerMinute
    IN  hour * MinutesPerHour + minute

\* datetime.isoformat(): the text, by its fields.
IsoFormat(t) ==
    LET secs == t % SecondsPerDay
    IN  [date   |-> t \div SecondsPerDay,
         hour   |-> secs \div (MinutesPerHour * SecondsPerMinute),
         minute |-> (secs % (MinutesPerHour * SecondsPerMinute)) \div SecondsPerMinute,
         second |-> secs % SecondsPerMinute]
\* datetime.fromisoformat()
FromIsoFormat(s) ==
    s.date * SecondsPerDay
    + (s.hour * MinutesPerHour + s.minute) * SecondsPerMinute
    + s.second

\* ------------------------------------------------- choose_prompt_time
\* [m for m in range(24 * 60) if m not in excluded_minutes], with the fallback.
AvailableMinutesNoFallback(excluded) == AllMinutes \ excluded
AvailableMinutesIgnoringExcluded(excluded) == AllMinutes
AvailableMinutes(excluded) ==
    IF AllMinutes \ excluded = {} THEN AllMinutes ELSE AllMinutes \ excluded

\* random.choice(seq): any element; IndexError (None here) on an empty list.
RandomChoice(S) == IF S = {} THEN {None} ELSE {Some(m) : m \in S}

\* The first target day: tomorrow when the last prompt was today.
FirstTargetDaySameDayToday(now, last_prompt) == DateOf(now)
FirstTargetDay(now, last_prompt) ==
    IF IsSome(last_prompt) /\ DateOf(Get(last_prompt)) = DateOf(now)
    THEN DateOf(now) + 1
    ELSE DateOf(now)

\* if target <= now: the first candidate is dropped and day + 1 is taken.
NeedsRetryStrict(target, now) == target < now
NeedsRetry(target, now) == target <= now

\* One run of choose_prompt_time with the two random draws r1, r2 (r2 is
\* used by the retry only).  target = None stands for an exception.
ChooseWith(now, last_prompt, excluded, r1, r2) ==
    IF ~IsSome(r1)
    THEN [first |-> None, retried |-> FALSE, target |-> None]
    ELSE
      LET day1 == FirstTargetDay(now, last_prompt)
          t1 == MakeDatetime(day1, Get(r1) \div MinutesPerHour, Get(r1) % MinutesPerHour)
      IN  IF NeedsRetry(t1, now)
          THEN IF ~IsSome(r2)
               THEN [first |-> Some(t1), retried |-> TRUE, target |-> None]
               ELSE [first |-> Some(t1), retried |-> TRUE,
                     target |-> Some(MakeDatetime(DateOf(now) + 1,
                                                  Get(r2) \div MinutesPerHour,
                                                  Get(r2) % MinutesPerHour))]
          ELSE [first |-> Some(t1), retried |-> FALSE, target |-> Some(t1)]

\* Every outcome choose_prompt_time(now, last_prompt, excluded) can have.
choose_prompt_time(now, last_prompt, excluded) ==
    { ChooseWith(now, last_prompt, excluded, r1, r2) :
        r1 \in RandomChoice(AvailableMinutes(excluded)),
        r2 \in RandomChoice(AvailableMinutes(excluded)) }


\* ------------------------------------------------------------ the store
\* PROMPT_MINUTE_HISTORY_DAYS = 1440: one row per minute of the day.
PROMPT_MINUTE_HISTORY_DAYS == MinutesPerDay

RECURSIVE SeqToSet(_)
SeqToSet(q) == IF q = <<>> THEN {} ELSE {Head(q)} \cup SeqToSet(Tail(q))
RECURSIVE Reverse(_)
Reverse(q) == IF q = <<>> THEN <<>> ELSE Append(Reverse(Tail(q)), Head(q))
\* The last n elements of q (all of q when it is shorter).
LastN(q, n) == IF Len(q) <= n THEN q ELSE SubSeq(q, Len(q) - n + 1, Len(q))

\* Database.get_next_prompt / get_last_prompt: parse the stored text.
get_next_prompt(stored) ==
    IF IsSome(stored) THEN Some(FromIsoFormat(Get(stored))) ELSE None
get_last_prompt(stored) ==
    IF IsSome(stored) THEN Some(FromIsoFormat(Get(stored))) ELSE None
\* Database.set_next_prompt / set_last_prompt: the text that is stored.
set_next_prompt(timestamp) ==
    IF IsSome(timestamp) THEN Some(IsoFormat(Get(timestamp))) ELSE None
set_last_prompt(timestamp) == Some(IsoFormat(timestamp))

\* prompt_history rows in id order (AUTOINCREMENT: insertion order).
add_prompt_history(history, timestamp) ==
    Append(history, [prompt_time |-> IsoFormat(timestamp),
                     minute_of_day |-> MinuteOfDay(timestamp)])
\* SELECT minute_of_day ... ORDER BY id DESC LIMIT ?
get_recent_prompt_minutes(history, limit) ==
    LET rows == Reverse(LastN(history, limit))
    IN  [i \in 1 .. Len(rows) |-> rows[i].minute_of_day]
\* DELETE ... WHERE id NOT IN (SELECT id ... ORDER BY id DESC LIMIT ?)
prune_prompt_history_nothing(history, limit) == history
prune_prompt_history_oldest(history, limit) ==
    IF Len(history) <= limit THEN history ELSE SubSeq(history, 1, limit)
prune_prompt_history(history, limit) == LastN(history, limit)

\* users rows in id order; each row [id, telegram_id].
get_user_by_telegram(rows, telegram_id) ==
    LET hit == SelectSeq(rows, LAMBDA r : r.telegram_id = telegram_id)
    IN  IF hit = <<>> THEN None ELSE Some(hit[1])
is_user_banned(ban_rows, telegram_id) == telegram_id \in ban_rows

\* ------------------------------------------------------ session tokens
\* time.time() is a float; the clock of the session functions counts
\* TicksPerSecond ticks to the second, and int(time.time()) drops the fraction.
TicksPerSecond == 2
IntTime(now) == now \div TicksPerSecond
\* SESSION_TTL_SECONDS = 60 * 60 * 24 * 14
SESSION_TTL_SECONDS == 14 * SecondsPerDay

\* Byte strings, by what they hold: the JSON text of a payload, or an
\* HMAC-SHA256 digest (of a message under a key; distinct inputs have distinct
\* digests); `garbled` says that some bit of it was altered afterwards.
JsonDumps(payload) == [form |-> "json", body |-> Some(payload), mac |-> None,
                       garbled |-> FALSE]
Hmac(key, msg) == [form |-> "mac", body |-> None, mac |-> Some([key |-> key, msg |-> msg]),
                   garbled |-> FALSE]
\* hmac.compare_digest
compare_digest(a, b) == a = b

\* A base64url text without padding, by the bytes it decodes to (`of`), the
\* bits of its last character that carry no data (`slack`: 43 characters of
\* 6 bits hold the 256 bits of a digest and 2 more), and whether it holds a
\* character that makes the decoder fail (`junk`).
B64_SLACK_BITS == 2
_b64url_encode(raw) == [of |-> raw, slack |-> 0, junk |-> FALSE]
\* base64.urlsafe_b64decode does not look at the slack bits; None stands for
\* binascii.Error.
_b64url_decode(text) == IF text.junk THEN None ELSE Some(text.of)

\* A call either returns a value or raises.
Raises == [raised |-> TRUE, value |-> None]
Returns(v) == [raised |-> FALSE, value |-> v]

\* create_session_token(telegram_id) with APP_SESSION_SECRET = secret (None:
\* not set) at the instant now.
create_session_token_unkeyed(telegram_id, secret, now) ==
    LET issued_at == IntTime(now)
        payload == [telegram_id |-> telegram_id, iat |-> Some(issued_at),
                    exp |-> Some(issued_at + SESSION_TTL_SECONDS)]
        payload_b64 == _b64url_encode(JsonDumps(payload))
        key == IF IsSome(secret) THEN Get(secret) ELSE ""
    IN  Returns(Some([kind |-> "pair", payload_b64 |-> payload_b64,
                      sig_b64 |-> _b64url_encode(Hmac(key, payload_b64))]))
create_session_token(telegram_id, secret, now) ==
    LET issued_at == IntTime(now)
        payload == [telegram_id |-> telegram_id, iat |-> Some(issued_at),
                    exp |-> Some(issued_at + SESSION_TTL_SECONDS)]
        payload_b64 == _b64url_encode(JsonDumps(payload))
    IN  IF ~IsSome(secret)
        THEN Raises
        ELSE Returns(Some([kind |-> "pair", payload_b64 |-> payload_b64,
                           sig_b64 |-> _b64url_encode(Hmac(Get(secret), payload_b64))]))

\* if int(payload.get("exp", 0)) < int(time.time())
Expired(exp, now) == exp < IntTime(now)

\* The body of parse_and_verify_session's try block.
VerifyBody(token, secret, now) ==
    IF ~IsSome(secret) THEN Raises
    ELSE IF ~IsSome(_b64url_decode(token.sig_b64)) THEN Raises
    ELSE IF ~compare_digest(Get(_b64url_decode(token.sig_b64)),
                            Hmac(Get(secret), token.payload_b64))
    THEN Returns(None)
    ELSE IF ~IsSome(_b64url_decode(token.payload_b64)) THEN Raises
    ELSE LET raw == Get(_b64url_decode(token.payload_b64))
         IN  IF raw.form # "json" \/ raw.garbled THEN Raises
             ELSE LET payload == Get(raw.body)
                      exp == IF IsSome(payload.exp) THEN Get(payload.exp) ELSE 0
                  IN  IF Expired(exp, now) THEN Returns(None)
                      ELSE Returns(Some(payload))

\* except Exception: return None
ExceptNothing(outcome) == outcome
ExceptException(outcome) == IF outcome.raised THEN Returns(None) ELSE outcome

\* parse_and_verify_session(token): kind "empty" is the empty text (or no
\* cookie), "nosep" a text without ".", "pair" the two parts around the first ".".
parse_and_verify_session(token, secret, now) ==
    IF token.kind # "pair"
    THEN Returns(None)
    ELSE ExceptException(VerifyBody(token, secret, now))

\* ---------------------------------------------------- login assertions
\* The query parameters of the login callback: the keys auth_date, id,
\* username and hash, each absent (None) or holding a text. A text is known by
\* whether int() reads it and the number it reads.
IntText(n) == [digits |-> TRUE, n |-> n]
JunkText == [digits |-> FALSE, n |-> 0]
\* int(text); None stands for ValueError.
ParseInt(text) == IF text.digits THEN Some(text.n) ELSE None

\* The text of a hash parameter: the hex digest of some bytes, the empty text,
\* or a text with a character outside ASCII.
HexDigest(digest) == [kind |-> "hex", digest |-> Some(digest)]
EmptyText == [kind |-> "empty", digest |-> None]
NonAsciiText == [kind |-> "nonascii", digest |-> None]

\* data = {k: v for k, v in query_params.items() if k != "hash"}
WithoutHash(query_params) == [query_params EXCEPT !.hash = None]
\* "\n".join(f"{k}={v}" for k, v in sorted(data.items())): the lines of the
\* keys present, in the order of the keys.
DataCheckString(data) ==
    (IF IsSome(data.auth_date) THEN <<[k |-> "auth_date", v |-> Get(data.auth_date)]>> ELSE <<>>)
    \o (IF IsSome(data.id) THEN <<[k |-> "id", v |-> Get(data.id)]>> ELSE <<>>)
    \o (IF IsSome(data.username) THEN <<[k |-> "username", v |-> Get(data.username)]>> ELSE <<>>)
\* hashlib.sha256(token.encode("utf-8")).digest()
Sha256(text) == [sha256 |-> text]
\* The hash Telegram puts on the claims `data` for the bot whose token is given.
LoginHash(bot_token, data) == HexDigest(Hmac(Sha256(bot_token), DataCheckString(data)))

Abs(x) == IF x < 0 THEN -x ELSE x
\* 60 * 10 seconds
LOGIN_MAX_AGE == 10 * SecondsPerMinute
\* if abs(int(time.time()) - auth_date) > 60 * 10
LoginStalePastOnly(now, auth_date) == IntTime(now) - auth_date > LOGIN_MAX_AGE
LoginStale(now, auth_date) == Abs(IntTime(now) - auth_date) > LOGIN_MAX_AGE

\* verify_telegram_login_payload(query_params) with TELEGRAM_BOT_TOKEN =
\* bot_token (None: not set) at the instant now. compare_digest raises
\* TypeError on a text with a character outside ASCII.
verify_telegram_login_payload(query_params, bot_token, now) ==
    IF ~IsSome(bot_token) THEN Returns(None)
    ELSE IF ~IsSome(query_params.hash) THEN Returns(None)
    ELSE IF Get(query_params.hash).kind = "empty" THEN Returns(None)
    ELSE LET data == WithoutHash(query_params)
             computed_hash == LoginHash(Get(bot_token), data)
             provided_hash == Get(query_params.hash)
             auth_text == IF IsSome(data.auth_date) THEN Get(data.auth_date)
                          ELSE IntText(0)
         IN  IF provided_hash.kind = "nonascii" THEN Raises
             ELSE IF ~(computed_hash = provided_hash) THEN Returns(None)
             ELSE IF ~IsSome(ParseInt(auth_text)) THEN Returns(None)
             ELSE IF LoginStale(now, Get(ParseInt(auth_text))) THEN Returns(None)
             ELSE Returns(Some(data))

VARIABLES
    pick,               \* choose_prompt_time alone: its inputs and its outcome
    hist,               \* the history table alone: the prune limit, the instants appended
    session,            \* the session functions alone: secret, token, verdict
    login,              \* the login-assertion check alone: assertion, time, verdict
    web,                \* the HTTP side: secret, clock, login assertions, tokens minted, last response
    lock,               \* Database._lock and the calls of the store in progress
    clock,              \* the wall clock, in ticks
    next_prompt,        \* schedule_state.next_prompt (ISO text or None)
    last_prompt,        \* prompt_state.last_prompt (ISO text or None)
    prompt_history,     \* prompt_history rows
    users,              \* users rows
    user_seq,           \* the users table's AUTOINCREMENT counter
    banned,             \* banned_users: telegram ids
    registrations_open, \* registration_state.registrations_open
    photos,             \* photos rows
    objects,            \* object keys in the bucket
    pc,                 \* where scheduler_loop is suspended
    target,             \* scheduler_loop's local target
    recipients,         \* send_daily_prompt: the users still to be sent to
    photo_pending,      \* handle_photo suspended in its download, or None
    photo_updates,      \* photo messages handed to handle_photo so far
    reply,              \* handle_photo's last reply_text: [to, text, update]
    writer,             \* history: who last wrote next_prompt or last_prompt
    delivered,          \* history: the prompts delivered on the latest day, [day, to]
    redelivered,        \* history: the first [day, to] delivered a second time
    crashes,            \* history: process restarts so far
    fetched,            \* history: what send_daily_prompt last read, [users, banned_ids]
    attempts            \* history: its send_message calls so far, [to, ok]

storeVars == <<next_prompt, last_prompt, prompt_history, users, user_seq, banned,
               registrations_open, photos, objects>>
loopVars == <<pc, target, recipients>>
photoVars == <<photo_pending, photo_updates, reply>>
sendVars == <<fetched, attempts>>
ghostVars == <<writer, delivered, redelivered, crashes, sendVars>>
mainVars == <<clock, storeVars, loopVars, photoVars, ghostVars>>
pureVars == <<pick, hist, session, login, web, lock>>
vars == <<pureVars, mainVars>>

\* The telegram ids that talk to the bot; the owner is the last of them.
NumIds == 2
TelegramIds == 1 .. NumIds
OwnerId == NumIds
MaxCrashes == 1

\* Database.init() on a fresh file, before on_startup creates the tasks.
InitStore ==
    /\ next_prompt = None
    /\ last_prompt = None
    /\ prompt_history = <<>>
    /\ users = <<>>
    /\ user_seq = 0
    /\ banned = {}
    /\ registrations_open = TRUE
    /\ photos = <<>>
    /\ objects = {}
InitTasks ==
    /\ pc = "starting"
    /\ target = None
    /\ recipients = <<>>
    /\ photo_pending = None
    /\ photo_updates = 0
    /\ reply = None
    /\ writer = "nobody"
    /\ delivered = {}
    /\ redelivered = None
    /\ crashes = 0
    /\ fetched = None
    /\ attempts = <<>>
InitMain ==
    /\ clock \in 0 .. (SecondsPerMinute - 1)
    /\ InitStore
    /\ InitTasks

\* ------------------------------------------- choose_prompt_time alone
\* The pure functions are not being exercised.
NoPick == pick = [in |-> None, out |-> None]
NoHist == hist = [limit |-> None, appended |-> <<>>]
NoSession == session = [stage |-> "unused"]
NoLogin == login = [stage |-> "unused"]
NoWeb == web = [stage |-> "unused"]
NoLock == lock = [stage |-> "unused"]
NoPure == NoPick /\ NoHist /\ NoSession /\ NoLogin /\ NoWeb /\ NoLock

\* The inputs: now on day 1, last_prompt absent or anywhere on days 0..1,
\* any excluded set of minutes.
PickInputs ==
    [now : SecondsPerDay .. (2 * SecondsPerDay - 1),
     last_prompt : {None} \cup {Some(t) : t \in 0 .. (2 * SecondsPerDay - 1)},
     excluded : SUBSET AllMinutes]

InitPick ==
    /\ NoLock
    /\ \E i \in PickInputs : pick = [in |-> Some(i), out |-> None]
    /\ NoHist
    /\ NoSession
    /\ NoLogin
    /\ NoWeb
    /\ InitMain
    /\ clock = 0

ApplyPick ==
    /\ IsSome(pick.in)
    /\ pick.out = None
    /\ \E o \in choose_prompt_time(Get(pick.in).now, Get(pick.in).last_prompt,
                                   Get(pick.in).excluded) :
           pick' = [pick EXCEPT !.out = Some(o)]
    /\ UNCHANGED <<lock, hist, session, login, web, mainVars>>

NextPick == ApplyPick

SpecPick == InitPick /\ [][NextPick]_vars

\* ------------------------------------------- the history table alone
\* add_prompt_history followed by prune_prompt_history(limit), again and
\* again, on a table that starts empty.  A limit is a number of rows; the
\* instants appended are the starts of the minutes of day 0.
MaxLimit == 3
MaxAppends == 4

InitHist ==
    /\ NoLock
    /\ NoPick
    /\ NoSession
    /\ NoLogin
    /\ NoWeb
    /\ \E limit \in 0 .. MaxLimit : hist = [limit |-> Some(limit), appended |-> <<>>]
    /\ InitMain
    /\ clock = 0

AppendAndPrune ==
    /\ IsSome(hist.limit)
    /\ Len(hist.appended) < MaxAppends
    /\ \E m \in AllMinutes :
         LET timestamp == MakeDatetime(0, m \div MinutesPerHour, m % MinutesPerHour)
         IN  /\ prompt_history' =
                  prune_prompt_history(add_prompt_history(prompt_history, timestamp),
                                       Get(hist.limit))
             /\ hist' = [hist EXCEPT !.appended = Append(@, timestamp)]
    /\ UNCHANGED <<lock, pick, session, login, web, clock, next_prompt, last_prompt, users, user_seq,
                   banned, registrations_open, photos, objects, loopVars, photoVars,
                   ghostVars>>

NextHist == AppendAndPrune

SpecHist == InitHist /\ [][NextHist]_vars


\* ------------------------------------------- the session functions alone
\* A token is minted for a subject, travels as a cookie (where a bit of it
\* may be flipped, or another text may be sent in its place), and is verified
\* at some later instant; the secret may be gone from the environment by
\* then.  Instants are ticks since the epoch, which is long past.
MaxIssueSecond == 2
IssueTimes == TicksPerSecond .. (MaxIssueSecond * TicksPerSecond)
LastVerifyTime == (MaxIssueSecond + SESSION_TTL_SECONDS + 2) * TicksPerSecond
ServerSecret == "server secret"
OtherSecret == "another secret"

\* The value of n with bit j flipped.
FlipBit(n, j) == IF (n \div (2 ^ j)) % 2 = 0 THEN n + 2 ^ j ELSE n - 2 ^ j
\* The base64url texts one flipped bit away from text: a data bit differs, a
\* slack bit differs, or the character is no longer one the decoder takes.
FlippedTexts(text) ==
    {[text EXCEPT !.of = [@ EXCEPT !.garbled = TRUE]]}
    \cup {[text EXCEPT !.slack = FlipBit(@, j)] : j \in 0 .. (B64_SLACK_BITS - 1)}
    \cup {[text EXCEPT !.junk = TRUE]}
\* The tokens one flipped bit away from token, in either part.
FlippedTokens(token) ==
    {[token EXCEPT !.payload_b64 = t] : t \in FlippedTexts(token.payload_b64)}
    \cup {[token EXCEPT !.sig_b64 = t] : t \in FlippedTexts(token.sig_b64)}

\* payload_b64 signed under key, as create_session_token signs it.
Signed(payload_b64, key) ==
    [kind |-> "pair", payload_b64 |-> payload_b64,
     sig_b64 |-> _b64url_encode(Hmac(key, payload_b64))]
\* Other texts a client can send in place of the minted token.
OtherTokens(token) ==
    LET payload == Get(token.payload_b64.of.body)
    IN  {[token EXCEPT !.kind = "empty"],
         [token EXCEPT !.kind = "nosep"],
         Signed(token.payload_b64, OtherSecret),
         Signed([token.payload_b64 EXCEPT !.junk = TRUE], ServerSecret),
         Signed([token.payload_b64 EXCEPT !.of = [@ EXCEPT !.garbled = TRUE]], ServerSecret),
         Signed(_b64url_encode(JsonDumps([payload EXCEPT !.exp = None])), ServerSecret)}

InitSession ==
    /\ NoLock
    /\ NoPick
    /\ NoHist
    /\ NoLogin
    /\ NoWeb
    /\ \E secret \in {None, Some(ServerSecret)} :
         session = [stage |-> "start", secret |-> secret]
    /\ InitMain
    /\ clock = 0

\* GET /auth/telegram/callback: create_session_token for the subject.
Mint ==
    /\ session.stage = "start"
    /\ \E id \in TelegramIds, now \in IssueTimes :
         LET made == create_session_token(id, session.secret, now)
         IN  session' =
               IF made.raised
               THEN [stage |-> "no token", secret |-> session.secret]
               ELSE [stage |-> "minted", secret |-> session.secret, id |-> id,
                     issued |-> now, minted |-> Get(made.value),
                     token |-> Get(made.value), sent |-> "as minted"]
    /\ UNCHANGED <<lock, pick, hist, login, web, mainVars>>

\* One bit of the cookie is flipped on its way.
FlipOneBit ==
    /\ session.stage = "minted"
    /\ session.sent = "as minted"
    /\ \E t \in FlippedTokens(session.minted) :
         session' = [session EXCEPT !.token = t, !.sent = "one bit flipped"]
    /\ UNCHANGED <<lock, pick, hist, login, web, mainVars>>

\* The client sends another text in the cookie.
SendOther ==
    /\ session.stage = "minted"
    /\ session.sent = "as minted"
    /\ \E t \in OtherTokens(session.minted) :
         session' = [session EXCEPT !.token = t, !.sent = "another text"]
    /\ UNCHANGED <<lock, pick, hist, login, web, mainVars>>

\* The process is restarted without APP_SESSION_SECRET.
LoseSecret ==
    /\ session.stage = "minted"
    /\ IsSome(session.secret)
    /\ session' = [session EXCEPT !.secret = None]
    /\ UNCHANGED <<lock, pick, hist, login, web, mainVars>>

\* GET /api/me: parse_and_verify_session on the cookie.
Verify ==
    /\ session.stage = "minted"
    /\ \E now \in session.issued .. LastVerifyTime :
         session' = [stage |-> "verified", secret |-> session.secret, id |-> session.id,
                     issued |-> session.issued, minted |-> session.minted,
                     token |-> session.token, sent |-> session.sent, at |-> now,
                     out |-> parse_and_verify_session(session.token, session.secret, now)]
    /\ UNCHANGED <<lock, pick, hist, login, web, mainVars>>

NextSession ==
    \/ Mint
    \/ FlipOneBit
    \/ SendOther
    \/ LoseSecret
    \/ Verify

SpecSession == InitSession /\ [][NextSession]_vars

\* ---------------------------------------- the login-assertion check alone
\* The bot's token and the token of some other bot.
BotToken == "bot token"
OtherBotToken == "token of another bot"
\* The auth_date of the assertions, far enough from second 0 for every clock
\* reading considered to be more than LOGIN_MAX_AGE after the epoch, as any
\* real clock is; the clock readings run from before auth_date - LOGIN_MAX_AGE
\* to after auth_date + LOGIN_MAX_AGE.
AuthDate == 3 * LOGIN_MAX_AGE
LoginMargin == 2
LoginTimes == ((AuthDate - LOGIN_MAX_AGE - LoginMargin) * TicksPerSecond)
              .. ((AuthDate + LOGIN_MAX_AGE + LoginMargin) * TicksPerSecond)

\* The claims a browser may present: any id, auth_date absent, unreadable or
\* AuthDate, with or without a username.
LoginClaims ==
    {[id |-> Some(IntText(i)), auth_date |-> a, username |-> u, hash |-> None] :
        i \in TelegramIds,
        a \in {None, Some(JunkText), Some(IntText(AuthDate))},
        u \in {None, Some(JunkText)}}
\* The hash parameters that may come with the claims `data`: none, the empty
\* text, a text outside ASCII, Telegram's hash for this bot, the hash for
\* another bot, and the hash of the same claims under another id.
LoginHashes(data) ==
    {None, Some(EmptyText), Some(NonAsciiText),
     Some(LoginHash(BotToken, data)),
     Some(LoginHash(OtherBotToken, data))}
    \cup {Some(LoginHash(BotToken, [data EXCEPT !.id = Some(IntText(i))])) : i \in TelegramIds}
Assertions == UNION {{[data EXCEPT !.hash = h] : h \in LoginHashes(data)} : data \in LoginClaims}

InitLogin ==
    /\ NoLock
    /\ NoPick
    /\ NoHist
    /\ NoSession
    /\ NoWeb
    /\ \E bot_token \in {None, Some(BotToken)}, query_params \in Assertions, now \in LoginTimes :
         login = [stage |-> "start", bot_token |-> bot_token,
                  query_params |-> query_params, at |-> now]
    /\ InitMain
    /\ clock = 0

\* payload = verify_telegram_login_payload(dict(request.query_params))
VerifyLogin ==
    /\ login.stage = "start"
    /\ login' = [login EXCEPT !.stage = "verified"] @@
                [out |-> verify_telegram_login_payload(login.query_params, login.bot_token,
                                                        login.at)]
    /\ UNCHANGED <<lock, pick, hist, session, web, mainVars>>

NextLogin == VerifyLogin

SpecLogin == InitLogin /\ [][NextLogin]_vars

\* ------------------------------------------------------- scheduler_loop
\* if not target or target <= now
TargetStaleStrict(stored, now) == ~IsSome(stored) \/ Get(stored) < now
TargetStale(stored, now) == ~IsSome(stored) \/ Get(stored) <= now

\* One pass of the loop body from `now = datetime.now(...)` to the call of
\* asyncio.sleep, on the store values lp (last_prompt) and history as they
\* are at that point.  An exception in choose_prompt_time ends the task.
LoopTop(lp, history, lastWriter) ==
    LET now == clock
        stored == get_next_prompt(next_prompt)
    IN  IF TargetStale(stored, now)
        THEN \E o \in choose_prompt_time(now, get_last_prompt(lp),
                  SeqToSet(get_recent_prompt_minutes(history,
                               PROMPT_MINUTE_HISTORY_DAYS - 1))) :
               IF IsSome(o.target)
               THEN /\ next_prompt' = set_next_prompt(o.target)
                    /\ target' = o.target
                    /\ pc' = "sleeping"
                    /\ writer' = "scheduler_loop"
               ELSE /\ pc' = "dead"
                    /\ writer' = lastWriter
                    /\ UNCHANGED <<next_prompt, target>>
        ELSE /\ target' = stored
             /\ pc' = "sleeping"
             /\ writer' = lastWriter
             /\ UNCHANGED next_prompt

\* The tail of send_daily_prompt, after the for loop.
FinishPromptNoHistory ==
    /\ last_prompt' = set_last_prompt(clock)
    /\ prompt_history' = prompt_history
FinishPrompt ==
    LET prompt_time == clock
    IN  /\ last_prompt' = set_last_prompt(prompt_time)
        /\ prompt_history' =
             prune_prompt_history(add_prompt_history(prompt_history, prompt_time),
                                  PROMPT_MINUTE_HISTORY_DAYS)

\* on_startup: the scheduler task runs its first pass.
StartLoop ==
    /\ pc = "starting"
    /\ LoopTop(last_prompt, prompt_history, writer)
    /\ UNCHANGED <<pureVars, clock, last_prompt, prompt_history, users, user_seq, banned,
                   registrations_open, photos, objects, recipients, photoVars,
                   delivered, redelivered, crashes, sendVars>>

\* await asyncio.sleep(sleep_seconds) returns once sleep_seconds have passed.
SleepNeverOver(now, wake_at) == FALSE
SleepOver(now, wake_at) == now >= wake_at

\* The users send_daily_prompt sends to: those of `users`, in the order read,
\* whose telegram_id is not in banned_ids.
EligibleIgnoringBans(ids, banned_ids) == ids
Eligible(ids, banned_ids) == SelectSeq(ids, LAMBDA t : t \notin banned_ids)

\* What is left to send to after one send_message: the try/except logs a
\* failure and the for loop goes on.
AfterAttemptAbortOnFailure(todo, ok) == IF ok THEN Tail(todo) ELSE <<>>
AfterAttempt(todo, ok) == Tail(todo)

\* asyncio.sleep is over and send_daily_prompt runs to its first await: with no
\* user it returns at once, with every user banned it runs to its end, and in
\* both cases the loop goes on to its next sleep without suspending.
Wake ==
    /\ pc = "sleeping"
    /\ SleepOver(clock, Get(target))
    /\ attempts' = <<>>
    /\ LET ids == [i \in 1 .. Len(users) |-> users[i].telegram_id]
           banned_ids == banned
           todo == Eligible(ids, banned_ids)
       IN  /\ fetched' = Some([users |-> ids,
                                banned_ids |-> IF users = <<>> THEN {} ELSE banned_ids])
           /\ IF users = <<>>
              THEN /\ LoopTop(last_prompt, prompt_history, writer)
                   /\ UNCHANGED <<last_prompt, prompt_history, recipients>>
              ELSE IF todo = <<>>
              THEN /\ FinishPrompt
                   /\ LoopTop(last_prompt', prompt_history', "scheduler_loop")
                   /\ UNCHANGED recipients
              ELSE /\ pc' = "broadcasting"
                   /\ recipients' = todo
                   /\ UNCHANGED <<next_prompt, last_prompt, prompt_history, target,
                                  writer>>
    /\ UNCHANGED <<pureVars, clock, users, user_seq, banned, registrations_open, photos,
                   objects, photoVars, delivered, redelivered, crashes>>

\* bot.send_message to the next recipient returns (delivered) or raises (caught
\* and logged).  After the last one send_daily_prompt finishes and the loop
\* runs to its next sleep without suspending.
Deliver ==
    /\ pc = "broadcasting"
    /\ recipients # <<>>
    /\ \E ok \in BOOLEAN :
         LET sent == [day |-> DateOf(clock), to |-> Head(recipients)]
         IN  /\ attempts' = Append(attempts, [to |-> Head(recipients), ok |-> ok])
             /\ IF ok
                THEN /\ delivered' = {d \in delivered : d.day = sent.day} \cup {sent}
                     /\ redelivered' = IF sent \in delivered /\ redelivered = None
                                       THEN Some(sent)
                                       ELSE redelivered
                ELSE UNCHANGED <<delivered, redelivered>>
             /\ recipients' = AfterAttempt(recipients, ok)
    /\ IF recipients' = <<>>
       THEN /\ FinishPrompt
            /\ LoopTop(last_prompt', prompt_history', "scheduler_loop")
       ELSE UNCHANGED <<next_prompt, last_prompt, prompt_history, pc, target, writer>>
    /\ UNCHANGED <<pureVars, clock, users, user_seq, banned, registrations_open, photos,
                   objects, photoVars, crashes, fetched>>

\* Time passes.
Tick ==
    /\ clock < MaxClock
    /\ clock' = clock + 1
    /\ UNCHANGED <<pureVars, storeVars, loopVars, photoVars, ghostVars>>

\* A store call raises (sqlite3.Error: the database is locked, the disk is
\* full, ...) in the loop's pass at start-up, or when the sleep is over in
\* send_daily_prompt's get_users or in the pass that follows an empty
\* send_daily_prompt.  Nothing catches it in scheduler_loop: the exception
\* leaves the coroutine and the task is over.  The failed call wrote nothing.
StoreError ==
    /\ \/ pc = "starting"
       \/ pc = "sleeping" /\ SleepOver(clock, Get(target))
    /\ pc' = "dead"
    /\ UNCHANGED <<pureVars, clock, storeVars, target, recipients, photoVars,
                   ghostVars>>

\* The process dies and is started again: the store is kept, every task and
\* every handler in flight is gone, and on_startup runs the loop afresh.
Crash ==
    /\ crashes < MaxCrashes
    /\ pc \in {"sleeping", "broadcasting"}
    /\ crashes' = crashes + 1
    /\ pc' = "starting"
    /\ target' = None
    /\ recipients' = <<>>
    /\ photo_pending' = None
    /\ UNCHANGED <<pureVars, clock, storeVars, photo_updates, reply, writer, delivered,
                   redelivered, sendVars>>

\* ------------------------------------------------------- bot handlers
\* The bot is built with ApplicationBuilder's defaults, which hand the updates
\* to the handlers one at a time: while handle_photo is suspended in its
\* download no other bot handler starts.  The scheduler task runs beside them.
\* on_startup creates the scheduler task before the bot's, so the loop's first
\* pass is over when the first update arrives.
\* Of the texts sent with reply_text, those of handle_photo are modelled.
BotReady == pc # "starting" /\ photo_pending = None
MaxPhotoUpdates == 2
MaxUserRows == NumIds + 1

\* The 60-second capture window: one minute of the scaled calendar.
CAPTURE_WINDOW == SecondsPerMinute
\* (now - last_prompt).total_seconds() > 60
WindowMissed(now, last) == now - last > CAPTURE_WINDOW

\* Database.upsert_user: [rows, seq, id] after the call (the username of an
\* existing row is all that an update changes).
upsert_user(rows, seq, telegram_id) ==
    LET existing == get_user_by_telegram(rows, telegram_id)
    IN  IF IsSome(existing)
        THEN [rows |-> rows, seq |-> seq, id |-> Get(existing).id]
        ELSE [rows |-> Append(rows, [id |-> seq + 1, telegram_id |-> telegram_id]),
              seq |-> seq + 1, id |-> seq + 1]

BannedText == "You are banned from this app."
NoPromptText == "No prompt is active yet. Check back later!"
MissedText == "Sorry, you missed the 60-second window. Try again next time."
ReceivedText == "Photo received! It's saved to your journal."

\* handle_photo's three rejections: the text replied, or "" to go on.
PhotoReject(u) ==
    IF is_user_banned(banned, u)
    THEN BannedText
    ELSE IF ~IsSome(get_last_prompt(last_prompt))
    THEN NoPromptText
    ELSE IF WindowMissed(clock, Get(get_last_prompt(last_prompt)))
    THEN MissedText
    ELSE ""

\* handle_photo up to its first await (photo.get_file()).
PhotoCheckSilent(u) ==
    /\ BotReady
    /\ photo_updates < MaxPhotoUpdates
    /\ photo_updates' = photo_updates + 1
    /\ IF PhotoReject(u) # ""
       THEN UNCHANGED <<reply, photo_pending>>
       ELSE /\ reply' = None
            /\ photo_pending' = Some(u)
    /\ UNCHANGED <<pureVars, clock, storeVars, loopVars, ghostVars>>
PhotoCheck(u) ==
    /\ BotReady
    /\ photo_updates < MaxPhotoUpdates
    /\ photo_updates' = photo_updates + 1
    /\ IF PhotoReject(u) # ""
       THEN /\ reply' = Some([to |-> u, text |-> PhotoReject(u),
                              update |-> photo_updates'])
            /\ UNCHANGED photo_pending
       ELSE /\ reply' = None
            /\ photo_pending' = Some(u)
    /\ UNCHANGED <<pureVars, clock, storeVars, loopVars, ghostVars>>

\* Database.add_photo: one INSERT INTO photos.
add_photo_twice(rows, user_id, timestamp, object_key) ==
    rows \o << [user_id |-> user_id, timestamp |-> timestamp, object_key |-> object_key],
               [user_id |-> user_id, timestamp |-> timestamp, object_key |-> object_key] >>
add_photo(rows, user_id, timestamp, object_key) ==
    Append(rows, [user_id |-> user_id, timestamp |-> timestamp, object_key |-> object_key])

\* handle_photo from the download to its end.  The download or the upload may
\* raise: the handler ends there, with what it has written so far.
PhotoStore ==
    /\ IsSome(photo_pending)
    /\ LET u == Get(photo_pending)
           up == upsert_user(users, user_seq, u)
           timestamp == clock
           object_key == [user |-> u, stamp |-> timestamp]
       IN  /\ up.seq <= MaxUserRows
           /\ \E outcome \in {"download failed", "upload failed", "stored"} :
                /\ IF outcome = "download failed"
                   THEN UNCHANGED <<users, user_seq>>
                   ELSE users' = up.rows /\ user_seq' = up.seq
                /\ IF outcome = "stored"
                   THEN /\ objects' = objects \cup {object_key}
                        /\ photos' = add_photo(photos, up.id, IsoFormat(timestamp),
                                               object_key)
                        /\ reply' = Some([to |-> u, text |-> ReceivedText,
                                          update |-> photo_updates])
                   ELSE UNCHANGED <<objects, photos, reply>>
    /\ photo_pending' = None
    /\ UNCHANGED <<pureVars, clock, next_prompt, last_prompt, prompt_history, banned,
                   registrations_open, loopVars, photo_updates, ghostVars>>

\* /start
HandleStart(u) ==
    /\ BotReady
    /\ IF is_user_banned(banned, u)
       THEN UNCHANGED <<users, user_seq>>
       ELSE IF IsSome(get_user_by_telegram(users, u))
       THEN /\ users' = upsert_user(users, user_seq, u).rows
            /\ user_seq' = upsert_user(users, user_seq, u).seq
       ELSE IF ~registrations_open
       THEN UNCHANGED <<users, user_seq>>
       ELSE /\ user_seq < MaxUserRows
            /\ users' = upsert_user(users, user_seq, u).rows
            /\ user_seq' = upsert_user(users, user_seq, u).seq
    /\ UNCHANGED <<pureVars, clock, next_prompt, last_prompt, prompt_history, banned,
                   registrations_open, photos, objects, loopVars, photoVars,
                   ghostVars>>

\* The block shared by /prompts and /stats: a next prompt that is absent or
\* not after now is replaced by a fresh choice and stored.
StatusRefresh(handler) ==
    LET now == clock
        last == get_last_prompt(last_prompt)
        next == get_next_prompt(next_prompt)
    IN  IF ~IsSome(next) \/ Get(next) <= now
        THEN \E o \in choose_prompt_time(now, last,
                  SeqToSet(get_recent_prompt_minutes(prompt_history,
                               PROMPT_MINUTE_HISTORY_DAYS - 1))) :
               /\ IsSome(o.target)
               /\ next_prompt' = set_next_prompt(o.target)
               /\ writer' = handler
        ELSE UNCHANGED <<next_prompt, writer>>

\* /prompts (require_owner: anyone but the owner gets a refusal)
HandlePrompts(caller) ==
    /\ BotReady
    /\ IF caller # OwnerId
       THEN UNCHANGED <<next_prompt, writer>>
       ELSE StatusRefresh("handle_prompts")
    /\ UNCHANGED <<pureVars, clock, last_prompt, prompt_history, users, user_seq, banned,
                   registrations_open, photos, objects, loopVars, photoVars,
                   delivered, redelivered, crashes, sendVars>>

\* /stats
HandleStats(caller) ==
    /\ BotReady
    /\ IF caller # OwnerId
       THEN UNCHANGED <<next_prompt, writer>>
       ELSE StatusRefresh("handle_stats")
    /\ UNCHANGED <<pureVars, clock, last_prompt, prompt_history, users, user_seq, banned,
                   registrations_open, photos, objects, loopVars, photoVars,
                   delivered, redelivered, crashes, sendVars>>

\* /ban <telegram_id>
HandleBan(caller, telegram_id) ==
    /\ BotReady
    /\ IF caller # OwnerId
       THEN UNCHANGED banned
       ELSE banned' = banned \cup {telegram_id}
    /\ UNCHANGED <<pureVars, clock, next_prompt, last_prompt, prompt_history, users,
                   user_seq, registrations_open, photos, objects, loopVars,
                   photoVars, ghostVars>>

\* /unban <telegram_id>
HandleUnban(caller, telegram_id) ==
    /\ BotReady
    /\ IF caller # OwnerId
       THEN UNCHANGED banned
       ELSE banned' = banned \ {telegram_id}
    /\ UNCHANGED <<pureVars, clock, next_prompt, last_prompt, prompt_history, users,
                   user_seq, registrations_open, photos, objects, loopVars,
                   photoVars, ghostVars>>

\* /delete_user <telegram_id>: Database.delete_user drops the user's photos
\* rows and the users row.
HandleDeleteUser(caller, telegram_id) ==
    /\ BotReady
    /\ LET user == get_user_by_telegram(users, telegram_id)
       IN  IF caller # OwnerId \/ ~IsSome(user)
           THEN UNCHANGED <<users, photos>>
           ELSE /\ photos' = SelectSeq(photos, LAMBDA r : r.user_id # Get(user).id)
                /\ users' = SelectSeq(users, LAMBDA r : r.id # Get(user).id)
    /\ UNCHANGED <<pureVars, clock, next_prompt, last_prompt, prompt_history, user_seq,
                   banned, registrations_open, objects, loopVars, photoVars,
                   ghostVars>>

\* /open_registrations and /close_registrations
HandleSetRegistrations(caller, open) ==
    /\ BotReady
    /\ IF caller # OwnerId
       THEN UNCHANGED registrations_open
       ELSE registrations_open' = open
    /\ UNCHANGED <<pureVars, clock, next_prompt, last_prompt, prompt_history, users,
                   user_seq, banned, photos, objects, loopVars, photoVars,
                   ghostVars>>

\* ------------------------------------------------------ specifications

\* The scheduler beside the commands that touch what it reads.
Init == NoPure /\ InitMain

Next ==
    \/ StartLoop
    \/ Wake
    \/ Deliver
    \/ Tick
    \/ \E u \in TelegramIds : HandleStart(u)
    \/ \E c \in TelegramIds : HandlePrompts(c)
    \/ \E c \in TelegramIds : HandleStats(c)

Spec == Init /\ [][Next]_vars

\* The scheduler with process restarts.
NextCrash ==
    \/ StartLoop
    \/ Wake
    \/ Deliver
    \/ Tick
    \/ Crash
    \/ \E u \in TelegramIds : HandleStart(u)

SpecCrash == Init /\ [][NextCrash]_vars

\* The scheduler with time advancing and a fair event loop: the clock goes
\* on, a task that can run does run, a sleep that is over returns, and each
\* send_message returns or raises (the bot's HTTP requests have timeouts).
NextLive ==
    \/ StartLoop
    \/ Wake
    \/ Deliver
    \/ Tick
    \/ \E u \in TelegramIds : HandleStart(u)

SpecLive ==
    /\ Init
    /\ [][NextLive]_vars
    /\ WF_vars(Tick)
    /\ WF_vars(StartLoop)
    /\ WF_vars(Wake)
    /\ WF_vars(Deliver)

\* The scheduler on a store whose calls can fail.
NextStoreError ==
    \/ StartLoop
    \/ Wake
    \/ Deliver
    \/ Tick
    \/ StoreError
    \/ \E u \in TelegramIds : HandleStart(u)

SpecStoreError == Init /\ [][NextStoreError]_vars


\* handle_photo alone, with the loop asleep, on any store it can meet: any
\* clock reading, any last prompt (datetime.now is the wall clock, which can be
\* set back, so the last prompt may lie after now), any ban set, nobody or
\* everybody registered.
AllRegistered == [i \in 1 .. NumIds |-> [id |-> i, telegram_id |-> i]]
InitPhoto ==
    /\ NoPure
    /\ clock \in (MaxClock - 2 * CAPTURE_WINDOW - 1) .. MaxClock
    /\ next_prompt = Some(IsoFormat(MaxClock + 1))
    /\ \/ last_prompt = None /\ prompt_history = <<>>
       \/ \E t \in (MaxClock - 3 * CAPTURE_WINDOW - 1) .. MaxClock :
            /\ last_prompt = set_last_prompt(t)
            /\ prompt_history = add_prompt_history(<<>>, t)
    /\ \/ users = <<>> /\ user_seq = 0
       \/ users = AllRegistered /\ user_seq = NumIds
    /\ banned \in SUBSET TelegramIds
    /\ registrations_open = TRUE
    /\ photos = <<>>
    /\ objects = {}
    /\ pc = "sleeping"
    /\ target = Some(MaxClock + 1)
    /\ recipients = <<>>
    /\ photo_pending = None
    /\ photo_updates = 0
    /\ reply = None
    /\ writer = "scheduler_loop"
    /\ delivered = {}
    /\ redelivered = None
    /\ crashes = 0
    /\ fetched = None
    /\ attempts = <<>>

NextPhoto ==
    \/ \E u \in TelegramIds : PhotoCheck(u)
    \/ PhotoStore
    \/ Tick

SpecPhoto == InitPhoto /\ [][NextPhoto]_vars

\* The scheduler started on the store an earlier run of the process left: the
\* earlier run sent one prompt a day on each of the last k days (none, one
\* short of the history window, or the whole window), and persisted the
\* target for today before it stopped.  The owner bans and unbans while the
\* loop runs.
PastPrompt(days_ago) ==
    MakeDatetime(0 - days_ago, 0, 0) + (days_ago % MinutesPerDay) * SecondsPerMinute
RECURSIVE PastHistory(_)
PastHistory(k) ==
    IF k = 0 THEN <<>>
    ELSE add_prompt_history(PastHistory(k - 1), PastPrompt(PROMPT_MINUTE_HISTORY_DAYS + 1 - k))
InitSend ==
    /\ NoPure
    /\ clock = 0
    /\ \E k \in {0, PROMPT_MINUTE_HISTORY_DAYS - 1, PROMPT_MINUTE_HISTORY_DAYS} :
         /\ prompt_history = LastN(PastHistory(PROMPT_MINUTE_HISTORY_DAYS), k)
         /\ IF k = 0
            THEN /\ last_prompt = None
                 /\ next_prompt = None
                 /\ users = <<>>
                 /\ user_seq = 0
            ELSE /\ last_prompt = set_last_prompt(PastPrompt(1))
                 /\ \E m \in AllMinutes :
                      next_prompt = set_next_prompt(Some(MakeDatetime(0, m \div MinutesPerHour,
                                                                      m % MinutesPerHour)))
                 /\ users = AllRegistered
                 /\ user_seq = NumIds
    /\ banned = {}
    /\ registrations_open = TRUE
    /\ photos = <<>>
    /\ objects = {}
    /\ InitTasks

NextSend ==
    \/ StartLoop
    \/ Wake
    \/ Deliver
    \/ Tick
    \/ \E c, u \in TelegramIds : HandleBan(c, u)
    \/ \E c, u \in TelegramIds : HandleUnban(c, u)

SpecSend == InitSend /\ [][NextSend]_vars

\* The journal: photo submissions beside the commands that register, ban
\* and delete participants and open and close registrations, in the minute
\* after a prompt and the seconds after it.
InitJournal ==
    /\ NoPure
    /\ clock \in (MaxClock - CAPTURE_WINDOW - 1) .. MaxClock
    /\ next_prompt = Some(IsoFormat(MaxClock + 1))
    /\ last_prompt = set_last_prompt(MaxClock - CAPTURE_WINDOW - 1)
    /\ prompt_history = add_prompt_history(<<>>, MaxClock - CAPTURE_WINDOW - 1)
    /\ \/ users = <<>> /\ user_seq = 0
       \/ users = AllRegistered /\ user_seq = NumIds
    /\ banned \in {{}, {1}}
    /\ registrations_open \in BOOLEAN
    /\ photos = <<>>
    /\ objects = {}
    /\ pc = "sleeping"
    /\ target = Some(MaxClock + 1)
    /\ recipients = <<>>
    /\ photo_pending = None
    /\ photo_updates = 0
    /\ reply = None
    /\ writer = "scheduler_loop"
    /\ delivered = {}
    /\ redelivered = None
    /\ crashes = 0
    /\ fetched = None
    /\ attempts = <<>>

NextJournal ==
    \/ \E u \in TelegramIds : PhotoCheck(u)
    \/ PhotoStore
    \/ Tick
    \/ \E u \in TelegramIds : HandleStart(u)
    \/ \E u \in TelegramIds : HandleDeleteUser(OwnerId, u)
    \/ \E open \in BOOLEAN : HandleSetRegistrations(OwnerId, open)

SpecJournal == InitJournal /\ [][NextJournal]_vars

\* The broadcast beside the photo handler: the loop started on the store of
\* a run that sent yesterday's prompt to the registered users and persisted
\* a target for today; the users answer with photos while it runs.
InitCapture ==
    /\ NoPure
    /\ clock = 0
    /\ prompt_history = add_prompt_history(<<>>, PastPrompt(1))
    /\ last_prompt = set_last_prompt(PastPrompt(1))
    /\ \E m \in AllMinutes :
         next_prompt = set_next_prompt(Some(MakeDatetime(0, m \div MinutesPerHour,
                                                         m % MinutesPerHour)))
    /\ users = AllRegistered
    /\ user_seq = NumIds
    /\ banned = {}
    /\ registrations_open = TRUE
    /\ photos = <<>>
    /\ objects = {}
    /\ InitTasks

NextCapture ==
    \/ StartLoop
    \/ Wake
    \/ Deliver
    \/ Tick
    \/ \E u \in TelegramIds : PhotoCheck(u)
    \/ PhotoStore

SpecCapture == InitCapture /\ [][NextCapture]_vars

\* ------------------------------------------------------- the HTTP side
\* The HTTP endpoints beside the commands that change what they read. A
\* handler runs from its first line to its response without an await that
\* lets another handler in: each is one step.
\* The instants of the requests: the second of the assertions' auth_date, the
\* seconds around the end of an assertion's freshness and around the exp of
\* the tokens minted before that.
WebStart == AuthDate * TicksPerSecond
WebInstants ==
    {WebStart + d * TicksPerSecond :
        d \in {0, LOGIN_MAX_AGE, LOGIN_MAX_AGE + 1, SESSION_TTL_SECONDS - 1,
               SESSION_TTL_SECONDS + LOGIN_MAX_AGE + 1}}
\* At most MaxMints tokens are followed.
MaxMints == 2

\* Telegram's assertion for the user i, and what else a browser can bring to
\* the callback: an assertion signed for another bot, and a signed one
\* without an id.
ClaimsOf(i) == [id |-> Some(IntText(i)), auth_date |-> Some(IntText(AuthDate)),
                username |-> None, hash |-> None]
SignedAssertion(data) == [data EXCEPT !.hash = Some(LoginHash(BotToken, data))]
\* The requests followed are those about the first user.
WebSubjects == {1}
WebAssertions ==
    {SignedAssertion(ClaimsOf(i)) : i \in WebSubjects}
    \cup {[ClaimsOf(1) EXCEPT !.hash = Some(LoginHash(OtherBotToken, ClaimsOf(1)))],
          SignedAssertion([ClaimsOf(1) EXCEPT !.id = None])}

\* request.cookies.get(SESSION_COOKIE_NAME, ""): the cookie's text, or the
\* empty text.
EmptyToken == [kind |-> "empty"]
CookieText(cookie) == IF IsSome(cookie) THEN Get(cookie) ELSE EmptyToken

\* An exchange: the request (the endpoint, the login assertion, the session
\* cookie, the id in the path) and the response (the status, the detail of
\* an HTTPException, the cookie set, the JSON content).
NoExchange == [op |-> "none", assertion |-> None, token |-> EmptyToken, path_id |-> 0,
               at |-> 0, status |-> 0, detail |-> "", set_cookie |-> None,
               content |-> None]
HTTPException(exchange, status_code, detail) ==
    [exchange EXCEPT !.status = status_code, !.detail = detail]

\* The store the endpoints start on: nobody or everybody registered, the
\* first user with a photo in the journal.
InitWeb ==
    /\ NoLock
    /\ NoPick
    /\ NoHist
    /\ NoSession
    /\ NoLogin
    /\ \E secret \in {None, Some(ServerSecret)} :
         web = [stage |-> "up", secret |-> secret, now |-> WebStart, cookie |-> None,
                mints |-> <<>>, last |-> NoExchange]
    /\ clock = 0
    /\ next_prompt = Some(IsoFormat(MaxClock + 1))
    /\ last_prompt = None
    /\ prompt_history = <<>>
    /\ \/ users = <<>> /\ user_seq = 0 /\ photos = <<>> /\ objects = {}
       \/ /\ users = AllRegistered
          /\ user_seq = NumIds
          /\ photos = <<[user_id |-> 1, timestamp |-> IsoFormat(0),
                         object_key |-> [user |-> 1, stamp |-> 0]]>>
          /\ objects = {[user |-> 1, stamp |-> 0]}
    /\ banned = {}
    /\ registrations_open = TRUE
    /\ pc = "sleeping"
    /\ target = Some(MaxClock + 1)
    /\ recipients = <<>>
    /\ photo_pending = None
    /\ photo_updates = 0
    /\ reply = None
    /\ writer = "scheduler_loop"
    /\ delivered = {}
    /\ redelivered = None
    /\ crashes = 0
    /\ fetched = None
    /\ attempts = <<>>

\* Time passes between two requests; the last response has been delivered.
WebTick ==
    /\ web.stage = "up"
    /\ \E t \in WebInstants :
         /\ t > web.now
         /\ web' = [web EXCEPT !.now = t, !.last = NoExchange]
    /\ UNCHANGED <<lock, pick, hist, session, login, mainVars>>

\* The two refusals of telegram_auth_callback for the subject telegram_id:
\* the detail of the 403, or "" to go on.
CallbackRefusalClosedOnly(telegram_id) ==
    IF ~IsSome(get_user_by_telegram(users, telegram_id)) /\ ~registrations_open
    THEN "Registrations are closed"
    ELSE ""
CallbackRefusal(telegram_id) ==
    IF is_user_banned(banned, telegram_id)
    THEN "Banned"
    ELSE IF ~IsSome(get_user_by_telegram(users, telegram_id)) /\ ~registrations_open
    THEN "Registrations are closed"
    ELSE ""

\* GET /auth/telegram/callback with the query parameters query_params.
TelegramAuthCallback(query_params) ==
    /\ web.stage = "up"
    /\ LET request == [NoExchange EXCEPT !.op = "login", !.assertion = Some(query_params),
                                         !.at = web.now]
           verdict == verify_telegram_login_payload(query_params, Some(BotToken), web.now)
           payload == Get(verdict.value)
           telegram_id == Get(payload.id).n
           up == upsert_user(users, user_seq, telegram_id)
           session_token == create_session_token(telegram_id, web.secret, web.now)
       IN  IF verdict.raised
           THEN /\ web' = [web EXCEPT !.last = HTTPException(request, 500, "Internal Server Error")]
                /\ UNCHANGED <<users, user_seq>>
           ELSE IF ~IsSome(verdict.value)
           THEN /\ web' = [web EXCEPT !.last = HTTPException(request, 401,
                                                  "Invalid Telegram login payload")]
                /\ UNCHANGED <<users, user_seq>>
           ELSE IF ~IsSome(payload.id) \/ ~IsSome(ParseInt(Get(payload.id)))
           THEN /\ web' = [web EXCEPT !.last = HTTPException(request, 400,
                                                  "Missing Telegram user id")]
                /\ UNCHANGED <<users, user_seq>>
           ELSE IF CallbackRefusal(telegram_id) # ""
           THEN /\ web' = [web EXCEPT !.last = HTTPException(request, 403,
                                                  CallbackRefusal(telegram_id))]
                /\ UNCHANGED <<users, user_seq>>
           ELSE /\ up.seq <= MaxUserRows
                /\ users' = up.rows
                /\ user_seq' = up.seq
                /\ IF session_token.raised
                   THEN web' = [web EXCEPT !.last = HTTPException(request, 500,
                                                       "APP_SESSION_SECRET is not set")]
                   ELSE /\ Len(web.mints) < MaxMints
                        /\ web' = [web EXCEPT
                                     !.cookie = session_token.value,
                                     !.mints = Append(@, [assertion |-> query_params,
                                                          id |-> telegram_id,
                                                          token |-> Get(session_token.value),
                                                          at |-> web.now]),
                                     !.last = [request EXCEPT
                                                 !.status = 302,
                                                 !.set_cookie = session_token.value]]
    /\ UNCHANGED <<lock, pick, hist, session, login, clock, next_prompt, last_prompt,
                   prompt_history, banned, registrations_open, photos, objects,
                   loopVars, photoVars, ghostVars>>

\* POST /auth/logout: the response deletes the browser's cookie.
Logout ==
    /\ web.stage = "up"
    /\ web' = [web EXCEPT !.cookie = None,
                          !.last = [NoExchange EXCEPT !.op = "logout", !.at = web.now,
                                                      !.token = CookieText(web.cookie),
                                                      !.status = 303]]
    /\ UNCHANGED <<lock, pick, hist, session, login, mainVars>>

\* payload = parse_and_verify_session(token), in get_me.
MeAuthUnlessBanned(token) ==
    LET outcome == parse_and_verify_session(token, web.secret, web.now)
    IN  IF IsSome(outcome.value) /\ is_user_banned(banned, Get(outcome.value).telegram_id)
        THEN Returns(None)
        ELSE outcome
MeAuth(token) == parse_and_verify_session(token, web.secret, web.now)

\* Database.list_photos_for_user: the user's rows, latest first (rows are
\* added in the order of their timestamps).
list_photos_for_user(rows, user_id) ==
    Reverse(SelectSeq(rows, LAMBDA r : r.user_id = user_id))

\* The session cookies a client can send: the one its browser holds, a copy
\* it kept of a token minted earlier, or one it signed itself.
ForgedToken ==
    Signed(_b64url_encode(JsonDumps([telegram_id |-> 1, iat |-> Some(IntTime(WebStart)),
                                     exp |-> Some(IntTime(WebStart) + SESSION_TTL_SECONDS)])),
           OtherSecret)
PresentableTokens ==
    {CookieText(web.cookie), ForgedToken} \cup {web.mints[i].token : i \in DOMAIN web.mints}

\* GET /me with the session cookie token.
GetMe(token) ==
    /\ web.stage = "up"
    /\ LET request == [NoExchange EXCEPT !.op = "me", !.token = token, !.at = web.now]
           payload == MeAuth(token).value
           telegram_id == Get(payload).telegram_id
           user == get_user_by_telegram(users, telegram_id)
       IN  web' = [web EXCEPT !.last =
                     IF ~IsSome(payload)
                     THEN HTTPException(request, 401, "Not authenticated")
                     ELSE IF ~IsSome(user)
                     THEN HTTPException(request, 404, "User not found")
                     ELSE [request EXCEPT
                             !.status = 200,
                             !.content = Some([kind |-> "record",
                                               user |-> Get(user).telegram_id,
                                               photos |-> <<>>])]]
    /\ UNCHANGED <<lock, pick, hist, session, login, mainVars>>

\* GET /users/{telegram_id}/photos, sent with the browser's cookie.
ListPhotos(telegram_id) ==
    /\ web.stage = "up"
    /\ LET request == [NoExchange EXCEPT !.op = "photos", !.path_id = telegram_id,
                                         !.token = CookieText(web.cookie), !.at = web.now]
           user == get_user_by_telegram(users, telegram_id)
       IN  web' = [web EXCEPT !.last =
                     IF ~IsSome(user)
                     THEN HTTPException(request, 404, "User not found")
                     ELSE [request EXCEPT
                             !.status = 200,
                             !.content = Some([kind |-> "photo list",
                                               user |-> telegram_id,
                                               photos |-> list_photos_for_user(
                                                              photos, Get(user).id)])]]
    /\ UNCHANGED <<lock, pick, hist, session, login, mainVars>>

NextWeb ==
    \/ WebTick
    \/ \E query_params \in WebAssertions : TelegramAuthCallback(query_params)
    \/ Logout
    \/ \E token \in PresentableTokens : GetMe(token)
    \/ \E telegram_id \in WebSubjects : ListPhotos(telegram_id)
    \/ \E u \in WebSubjects : HandleBan(OwnerId, u)
    \/ \E u \in WebSubjects : HandleDeleteUser(OwnerId, u)
    \/ \E open \in BOOLEAN : HandleSetRegistrations(OwnerId, open)

SpecWeb == InitWeb /\ [][NextWeb]_vars

\* ------------------------------------------------------- Database._lock
\* The calls of the store, step by step, by NumCallers threads: `with
\* self._lock` acquires the lock (threading.Lock: whoever holds it, the
\* caller waits), the statements run, and the end of the block releases it.
NumCallers == 2
Callers == 1 .. NumCallers
NoCall == [op |-> "", arg |-> 0, todo |-> <<>>, user |-> None]

\* The steps of a call: delete_user calls get_user_by_telegram, which takes
\* and releases the lock, before its own `with self._lock` block.
StepsOfNested(op) ==
    IF op = "delete_user"
    THEN <<"acquire", "acquire", "select", "release", "delete", "release">>
    ELSE IF op = "upsert_user"
    THEN <<"acquire", "upsert", "release">>
    ELSE <<"acquire", "select", "release">>
StepsOf(op) ==
    IF op = "delete_user"
    THEN <<"acquire", "select", "release", "acquire", "delete", "release">>
    ELSE IF op = "upsert_user"
    THEN <<"acquire", "upsert", "release">>
    ELSE <<"acquire", "select", "release">>

InitLock ==
    /\ NoPick
    /\ NoHist
    /\ NoSession
    /\ NoLogin
    /\ NoWeb
    /\ lock = [stage |-> "up", holder |-> 0, calls |-> [c \in Callers |-> NoCall]]
    /\ InitMain
    /\ clock = 0

\* A thread calls get_user_by_telegram, upsert_user or delete_user (the calls
\* followed are all about one user, so that they meet on one row).
DbCall(c, op, telegram_id) ==
    /\ lock.stage = "up"
    /\ lock.calls[c].todo = <<>>
    /\ lock' = [lock EXCEPT !.calls[c] = [op |-> op, arg |-> telegram_id,
                                          todo |-> StepsOf(op), user |-> None]]
    /\ UNCHANGED <<pick, hist, session, login, web, mainVars>>

\* self._lock.__enter__()
LockAcquire(c) ==
    /\ lock.stage = "up"
    /\ lock.calls[c].todo # <<>>
    /\ Head(lock.calls[c].todo) = "acquire"
    /\ lock.holder = 0
    /\ lock' = [lock EXCEPT !.holder = c, !.calls[c].todo = Tail(@)]
    /\ UNCHANGED <<pick, hist, session, login, web, mainVars>>

\* self._lock.__exit__(); after the lookup of delete_user, `if not user:
\* return False`.
LockRelease(c) ==
    /\ lock.stage = "up"
    /\ lock.calls[c].todo # <<>>
    /\ Head(lock.calls[c].todo) = "release"
    /\ lock' = [lock EXCEPT
                  !.holder = 0,
                  !.calls[c].todo = IF lock.calls[c].op = "delete_user"
                                       /\ ~IsSome(lock.calls[c].user)
                                    THEN <<>>
                                    ELSE Tail(@)]
    /\ UNCHANGED <<pick, hist, session, login, web, mainVars>>

\* The statements inside the block.
DbStatement(c) ==
    /\ lock.stage = "up"
    /\ lock.calls[c].todo # <<>>
    /\ LET call == lock.calls[c]
           up == upsert_user(users, user_seq, call.arg)
       IN  \/ /\ Head(call.todo) = "select"
              /\ lock' = [lock EXCEPT !.calls[c].todo = Tail(@),
                                      !.calls[c].user = get_user_by_telegram(users, call.arg)]
              /\ UNCHANGED <<users, user_seq, photos>>
           \/ /\ Head(call.todo) = "upsert"
              /\ up.seq <= MaxUserRows
              /\ users' = up.rows
              /\ user_seq' = up.seq
              /\ lock' = [lock EXCEPT !.calls[c].todo = Tail(@)]
              /\ UNCHANGED photos
           \/ /\ Head(call.todo) = "delete"
              /\ photos' = SelectSeq(photos, LAMBDA r : r.user_id # Get(call.user).id)
              /\ users' = SelectSeq(users, LAMBDA r : r.id # Get(call.user).id)
              /\ lock' = [lock EXCEPT !.calls[c].todo = Tail(@)]
              /\ UNCHANGED user_seq
    /\ UNCHANGED <<pick, hist, session, login, web, clock, next_prompt, last_prompt,
                   prompt_history, banned, registrations_open, objects, loopVars,
                   photoVars, ghostVars>>

NextLock ==
    \/ \E c \in Callers, op \in {"get_user_by_telegram", "upsert_user", "delete_user"} :
         DbCall(c, op, OwnerId)
    \/ \E c \in Callers : LockAcquire(c)
    \/ \E c \in Callers : DbStatement(c)
    \/ \E c \in Callers : LockRelease(c)

SpecLock == InitLock /\ [][NextLock]_vars

\* ------------------------------------------------------------- claims
PickDone == IsSome(pick.in) /\ IsSome(pick.out)
PickIn == Get(pick.in)
PickOut == Get(pick.out)
LastOnSameDay(i) == IsSome(i.last_prompt) /\ DateOf(Get(i.last_prompt)) = DateOf(i.now)

\* C1: for every now, every last_prompt (absent, earlier day, same day) and
\* every excluded set, choose_prompt_time returns an instant strictly after
\* now, and it never raises.
C1_StrictlyAfterNow ==
    PickDone => /\ IsSome(PickOut.target)
                /\ Get(PickOut.target) > PickIn.now
\* The retry was taken with no last prompt recorded.
C1_Witness ==
    /\ PickDone
    /\ PickIn.last_prompt = None
    /\ PickOut.retried
    /\ IsSome(PickOut.target)

\* C2: with last_prompt on now's day the result is on now's day + 1; with
\* last_prompt absent or on another day the result is the first candidate on
\* now's day when that candidate is strictly after now and is on now's day + 1
\* otherwise; the result is never later than now's day + 1.
C2_DaySelection ==
    PickDone /\ IsSome(PickOut.target) =>
        LET today == DateOf(PickIn.now)
            day == DateOf(Get(PickOut.target))
        IN  /\ day <= today + 1
            /\ LastOnSameDay(PickIn) => day = today + 1
            /\ ~LastOnSameDay(PickIn) =>
                  /\ DateOf(Get(PickOut.first)) = today
                  /\ IF Get(PickOut.first) > PickIn.now
                     THEN PickOut.target = PickOut.first
                     ELSE day = today + 1
\* Last prompt on an earlier day, first candidate already passed: next day.
C2_Witness ==
    /\ PickDone
    /\ IsSome(PickIn.last_prompt)
    /\ ~LastOnSameDay(PickIn)
    /\ PickOut.retried
    /\ IsSome(PickOut.target)
    /\ DateOf(Get(PickOut.target)) = DateOf(PickIn.now) + 1

\* C3: for every non-empty excluded set that is a strict subset of all the
\* minutes of the day, the minute-of-day of the returned instant is not in
\* the excluded set, with and without the retry.
C3_NotExcluded ==
    PickDone /\ IsSome(PickOut.target)
      /\ PickIn.excluded # {} /\ PickIn.excluded # AllMinutes
      => MinuteOfDay(Get(PickOut.target)) \notin PickIn.excluded
\* The retry was taken with all minutes but one excluded.
C3_Witness ==
    /\ PickDone
    /\ Cardinality(PickIn.excluded) = MinutesPerDay - 1
    /\ PickOut.retried
    /\ IsSome(PickOut.target)

\* C4: with every minute of the day excluded, choose_prompt_time does not
\* fail: it draws from the unrestricted set and returns an instant strictly
\* after now.
C4_SaturatedFallback ==
    PickDone /\ PickIn.excluded = AllMinutes =>
        /\ IsSome(PickOut.first)
        /\ IsSome(PickOut.target)
        /\ Get(PickOut.target) > PickIn.now
        /\ MinuteOfDay(Get(PickOut.target)) \in AllMinutes
\* Saturated set, and the minute drawn is the last minute of the day.
C4_Witness ==
    /\ PickDone
    /\ PickIn.excluded = AllMinutes
    /\ IsSome(PickOut.target)
    /\ MinuteOfDay(Get(PickOut.target)) = MinutesPerDay - 1
\* A step of handle_photo's checks, the sender of the photo and the verdict.
PhotoCheckStep == photo_updates' = photo_updates + 1
PhotoAccepted == IsSome(photo_pending')
PhotoSender == IF PhotoAccepted THEN Get(photo_pending') ELSE Get(reply').to

\* C5: the capture-window check accepts a photo iff last_prompt is present
\* and 0 <= now - last_prompt <= 60 s: it rejects with no last prompt, rejects
\* one tick past the window, accepts at exactly the window, and rejects when
\* now is before last_prompt.  (The ban check comes first and is left aside.)
C5_InWindow ==
    /\ IsSome(last_prompt)
    /\ 0 <= clock - FromIsoFormat(Get(last_prompt))
    /\ clock - FromIsoFormat(Get(last_prompt)) <= CAPTURE_WINDOW
C5_CaptureWindow ==
    [][PhotoCheckStep =>
         IF PhotoAccepted
         THEN C5_InWindow
         ELSE IsSome(reply') /\ (Get(reply').text = BannedText \/ ~C5_InWindow)]_vars

\* C6: a photo that is rejected (sender banned, no prompt recorded, or more
\* than 60 s after last_prompt) leaves the photos rows, the bucket and the
\* users rows as they were, and the sender is sent a reply to that photo; and
\* a photo is rejected whenever one of the three conditions holds.
C6_MustReject(u) ==
    \/ u \in banned
    \/ last_prompt = None
    \/ clock - FromIsoFormat(Get(last_prompt)) > CAPTURE_WINDOW
C6_RejectedUntouched ==
    [][PhotoCheckStep =>
         IF PhotoAccepted
         THEN ~C6_MustReject(PhotoSender)
         ELSE /\ UNCHANGED <<photos, objects, users, user_seq>>
              /\ IsSome(reply')
              /\ Get(reply').update = photo_updates'
              /\ Get(reply').text \in {BannedText, NoPromptText, MissedText}
              /\ C6_MustReject(Get(reply').to)]_vars
\* A photo was stored, and a later one was rejected for coming too late.
C6_Witness ==
    /\ Len(photos) = 1
    /\ objects # {}
    /\ IsSome(reply)
    /\ Get(reply).text = MissedText
    /\ Get(reply).update = 2

\* C7: every value written to the persisted next_prompt, by the scheduler
\* loop, by /prompts or by /stats, is strictly later than the instant `now`
\* at which it was computed (the clock reading of the step that writes it).
C7_NextPromptAfterNow ==
    [][next_prompt' # next_prompt =>
         /\ IsSome(next_prompt')
         /\ FromIsoFormat(Get(next_prompt')) > clock]_vars
\* /stats has replaced the next prompt after a broadcast.
C7_Witness ==
    /\ writer = "handle_stats"
    /\ IsSome(last_prompt)
    /\ IsSome(next_prompt)
    /\ FromIsoFormat(Get(next_prompt)) > clock

\* C8: in the loop's pass from reading the clock to asyncio.sleep, a persisted
\* next_prompt that is absent or <= now is replaced by a fresh target that is
\* persisted before the sleep, and one that is > now is reused unchanged; so
\* whenever the loop goes to sleep, target - now > 0 and the persisted
\* next_prompt is the target slept on.
C8_LoopPass == pc' = "sleeping" /\ (pc # "sleeping" \/ target' # target)
C8_SleepOnFreshTarget ==
    [][C8_LoopPass =>
         /\ IF next_prompt = None \/ FromIsoFormat(Get(next_prompt)) <= clock
            THEN /\ next_prompt' # next_prompt
                 /\ IsSome(next_prompt')
                 /\ FromIsoFormat(Get(next_prompt')) > clock
            ELSE next_prompt' = next_prompt
         /\ IsSome(target')
         /\ Get(target') - clock > 0
         /\ next_prompt' = Some(IsoFormat(Get(target')))]_vars
\* After a restart that found a stale next_prompt (the broadcast of day 0 was
\* under way), the loop sleeps on a target after now.
C8_Witness ==
    /\ crashes = 1
    /\ pc = "sleeping"
    /\ last_prompt = None
    /\ delivered # {}
    /\ writer = "scheduler_loop"
    /\ IsSome(target)
    /\ Get(target) > clock
    /\ next_prompt = Some(IsoFormat(Get(target)))

\* C9: whatever the point at which the process crashes and restarts, no UTC
\* calendar day gets two broadcasts: nobody is sent the prompt twice on one
\* day.
C9_NoDayTwice == redelivered = None

\* C10: the scheduler loop is the only writer of next_prompt and last_prompt:
\* no command handler ever writes them.
C10_OnlySchedulerWrites == writer \in {"nobody", "scheduler_loop"}

\* The recipients of the send_message calls made so far, in the order made.
Attempted == [i \in 1 .. Len(attempts) |-> attempts[i].to]
\* The users read at the start that were not in the ban set read at the start.
FetchedEligible ==
    SelectSeq(Get(fetched).users, LAMBDA t : t \notin Get(fetched).banned_ids)

\* C11: in one broadcast the delivery attempts are exactly the participants
\* fetched at its start minus the ban set fetched at its start, each attempted
\* once, in participant order: while it runs, the attempts made followed by
\* those still to make are that list, and when the loop is asleep again all
\* of them have been made, whatever attempt failed; the loop does not end.
C11_AttemptsAreFetchedEligible ==
    /\ pc # "dead"
    /\ IsSome(fetched) =>
         /\ \A i, j \in 1 .. Len(attempts) : i # j => Attempted[i] # Attempted[j]
         /\ pc = "broadcasting" => Attempted \o recipients = FetchedEligible
         /\ pc = "sleeping" => Attempted = FetchedEligible
\* The first attempt failed, the second was made and delivered, and its
\* recipient was banned after the broadcast had read the ban set.
C11_Witness ==
    /\ pc = "sleeping"
    /\ Len(attempts) = 2
    /\ ~attempts[1].ok
    /\ attempts[2].ok
    /\ attempts[2].to \in banned
    /\ attempts[2].to \notin Get(fetched).banned_ids

\* The step in which a call of send_daily_prompt returns: the last
\* send_message of a fan-out, or a wake-up that met no user or only banned
\* users and went straight on to the next target.
SendEnds ==
    \/ pc = "broadcasting" /\ pc' \in {"sleeping", "dead"}
    \/ pc = "sleeping" /\ pc' \in {"sleeping", "dead"} /\ target' # target
\* last_prompt is set to now and exactly one row, for now, is appended.
PromptRecorded ==
    /\ last_prompt' = Some(IsoFormat(clock))
    /\ prompt_history' # <<>>
    /\ prompt_history'[Len(prompt_history')].prompt_time = IsoFormat(clock)
    /\ \E n \in 0 .. Len(prompt_history) :
         SubSeq(prompt_history', 1, Len(prompt_history') - 1) = LastN(prompt_history, n)
\* last_prompt is written only once every fetched, non-banned user was attempted.
WrittenAfterAllAttempts ==
    last_prompt' # last_prompt =>
        /\ IsSome(fetched')
        /\ [i \in 1 .. Len(attempts') |-> attempts'[i].to]
             = SelectSeq(Get(fetched').users, LAMBDA t : t \notin Get(fetched').banned_ids)

\* C12: every BROADCASTING step, whatever the delivery outcomes and whatever
\* the number of eligible recipients, ends by setting last_prompt to the
\* current instant and appending exactly one history row for that instant
\* before the loop is back at its next target; and last_prompt is never
\* written before all recipients have been attempted.
C12_EveryBroadcastRecorded ==
    [][/\ SendEnds => PromptRecorded
       /\ WrittenAfterAllAttempts]_vars
\* C12 as amended: the same for every BROADCASTING step that found at least
\* one registered user; a step that found none writes neither last_prompt
\* nor a history row.
C12_BroadcastWithUsersRecorded ==
    [][/\ SendEnds =>
            IF Get(fetched').users # <<>>
            THEN PromptRecorded
            ELSE UNCHANGED <<last_prompt, prompt_history>>
       /\ WrittenAfterAllAttempts]_vars
\* A wake-up of this run found users, all of them banned: no attempt was
\* made, and last_prompt and the newest history row are that instant.
C12_Witness ==
    /\ pc = "sleeping"
    /\ IsSome(fetched)
    /\ Get(fetched).users # <<>>
    /\ FetchedEligible = <<>>
    /\ attempts = <<>>
    /\ IsSome(last_prompt)
    /\ FromIsoFormat(Get(last_prompt)) >= 0
    /\ prompt_history[Len(prompt_history)].prompt_time = Get(last_prompt)

\* The limit the claim gives for the prune: one less than the window.
ClaimedPruneLimit == PROMPT_MINUTE_HISTORY_DAYS - 1

HistLimit == Get(hist.limit)
HistKept == IF Len(hist.appended) < HistLimit THEN Len(hist.appended) ELSE HistLimit

\* C14: for any limit L and any number n of rows appended one at a time with
\* prune_prompt_history(L) after each append, the table holds exactly
\* min(n, L) rows and they are the min(n, L) most recently appended; and
\* get_recent_prompt_minutes(k) is their minutes, most recently inserted
\* first, of length <= k (the k newest, or all of them).
C14_PruneKeepsNewest ==
    IsSome(hist.limit) =>
        LET n == Len(hist.appended)
        IN  /\ Len(prompt_history) = HistKept
            /\ \A i \in 1 .. HistKept :
                 /\ prompt_history[i].prompt_time = IsoFormat(hist.appended[n - HistKept + i])
                 /\ prompt_history[i].minute_of_day
                      = MinuteOfDay(hist.appended[n - HistKept + i])
            /\ \A k \in 0 .. (MaxLimit + 1) :
                 LET recent == get_recent_prompt_minutes(prompt_history, k)
                 IN  /\ Len(recent) <= k
                     /\ Len(recent) = IF HistKept < k THEN HistKept ELSE k
                     /\ \A i \in 1 .. Len(recent) :
                          recent[i] = MinuteOfDay(hist.appended[n - i + 1])
\* More rows were appended than the limit keeps, at distinct minutes.
C14_Witness ==
    /\ IsSome(hist.limit)
    /\ HistLimit = 2
    /\ Len(hist.appended) = MaxAppends
    /\ hist.appended[MaxAppends] # hist.appended[MaxAppends - 1]
    /\ hist.appended[1] # hist.appended[MaxAppends]
    /\ Len(prompt_history) = 2

\* C15: an error raised by the store while the loop loads, computes or
\* persists the target does not terminate the scheduler loop (it backs off
\* and retries): the loop task is never over.
C15_LoopSurvivesStoreError == pc # "dead"

\* C16: with no store error, time advancing and fair scheduling, the loop
\* cycles start -> SLEEPING -> BROADCASTING -> SLEEPING and never ends:
\* every sleep on a target within the clock's range (targets are whole
\* minutes) is followed by a BROADCASTING step (a fan-out under way, or, when
\* it ran to its end at once, the loop asleep on a later target), every
\* fan-out is followed by the next sleep, and once the clock's range is
\* exhausted the loop is asleep on a target beyond it.
C16_SleepLeadsToBroadcast ==
    /\ [](pc # "dead")
    /\ (pc = "starting") ~> (pc = "sleeping")
    /\ [](IsSome(target) => Get(target) % SecondsPerMinute = 0)
    /\ \A t \in {i \in 0 .. MaxClock : i % SecondsPerMinute = 0} :
         (pc = "sleeping" /\ target = Some(t))
           ~> (pc = "broadcasting" \/ (pc = "sleeping" /\ Get(target) > t))
    /\ (pc = "broadcasting") ~> (pc = "sleeping")
    /\ <>[](pc = "sleeping" /\ Get(target) > MaxClock)
\* Two broadcasts were completed and the loop is asleep again.
C16_Witness ==
    /\ pc = "sleeping"
    /\ Len(prompt_history) = 2
    /\ IsSome(fetched)
    /\ Attempted = FetchedEligible
    /\ Len(attempts) = NumIds
    /\ Get(target) > clock

\* A verification was made; the payload minted, and its exp in ticks.
Verified == session.stage = "verified"
MintedPayload == Get(session.minted.payload_b64.of.body)
MintedExpAt == Get(MintedPayload.exp) * TicksPerSecond

\* C17: for every subject id, parse_and_verify_session on the token that
\* create_session_token(id) made, evaluated at any time before the token's
\* exp, yields a payload whose telegram_id is id; evaluated at any time after
\* exp it yields no identity.
C17_RoundTrip ==
    Verified /\ session.sent = "as minted" /\ IsSome(session.secret) =>
        /\ ~session.out.raised
        /\ session.at < MintedExpAt =>
             /\ IsSome(session.out.value)
             /\ Get(session.out.value).telegram_id = session.id
        /\ session.at > MintedExpAt => session.out.value = None

\* C18: a token is accepted only when its exp is strictly in the future at
\* the time of verification (at a time equal to exp it is void); and every
\* minted token has exp = iat + 14 days, iat being the second of issue.
C18_AcceptedOnlyBeforeExp ==
    /\ session.stage \in {"minted", "verified"} =>
         /\ Get(MintedPayload.iat) = IntTime(session.issued)
         /\ Get(MintedPayload.exp) = Get(MintedPayload.iat) + 14 * SecondsPerDay
    /\ Verified /\ IsSome(session.out.value) =>
         /\ IsSome(Get(session.out.value).exp)
         /\ Get(Get(session.out.value).exp) * TicksPerSecond > session.at

\* C19: every token text that differs from a minted token by one flipped
\* bit, in the payload part or in the signature part, fails verification.
C19_OneBitFlipFails ==
    Verified /\ session.sent = "one bit flipped" /\ IsSome(session.secret) =>
        session.out.value = None

\* The token presented is void: empty, without separator, a part that does
\* not decode, a signature that is not the MAC of the payload part under the
\* server's secret, no secret, or an exp that is missing or past.
C20_Void ==
    \/ session.token.kind # "pair"
    \/ session.token.payload_b64.junk
    \/ session.token.sig_b64.junk
    \/ session.token.payload_b64.of.garbled
    \/ ~IsSome(session.secret)
    \/ session.token.sig_b64.of # Hmac(Get(session.secret), session.token.payload_b64)
    \/ ~IsSome(Get(session.token.payload_b64.of.body).exp)
    \/ Get(Get(session.token.payload_b64.of.body).exp) < IntTime(session.at)
\* C20: verification fails uniformly: for an empty token, a token without
\* separator, an undecodable payload or signature, a signature mismatch, an
\* expired or missing exp, or a missing server secret,
\* parse_and_verify_session returns the same no-identity result, and it never
\* raises to its caller; any other token yields its payload.
C20_UniformFailure ==
    Verified =>
        /\ ~session.out.raised
        /\ IF C20_Void
           THEN session.out = Returns(None)
           ELSE session.out = Returns(session.token.payload_b64.of.body)
\* The minted token, verified before its exp after the secret was lost.
C20_Witness ==
    /\ Verified
    /\ session.sent = "as minted"
    /\ ~IsSome(session.secret)
    /\ session.at < MintedExpAt
    /\ session.out = Returns(None)

\* ---------------------------------------------------------------- C23
\* C23: verify_telegram_login_payload returns the claims exactly when the bot
\* token is configured, a hash is present, the hash is the keyed hash of the
\* sorted key=value lines of the other claims, auth_date reads as an integer
\* and the clock reading is at most LOGIN_MAX_AGE seconds away from it, in
\* either direction; in every other case it yields no identity. A correctly
\* signed assertion is rejected LOGIN_MAX_AGE + 1 seconds away and accepted
\* LOGIN_MAX_AGE - 1 seconds away, in the past and in the future.
LoginChecked == login.stage = "verified"
LoginClaimsOf(query_params) == WithoutHash(query_params)
LoginWellSigned ==
    /\ IsSome(login.bot_token)
    /\ IsSome(login.query_params.hash)
    /\ Get(login.query_params.hash)
         = LoginHash(Get(login.bot_token), LoginClaimsOf(login.query_params))
LoginDated ==
    /\ IsSome(login.query_params.auth_date)
    /\ Get(login.query_params.auth_date).digits
\* The clock reading minus auth_date, in whole seconds.
LoginAge == IntTime(login.at) - Get(login.query_params.auth_date).n
C23_LoginAcceptedIff ==
    LoginChecked =>
        /\ (LoginWellSigned /\ LoginDated /\ Abs(LoginAge) <= LOGIN_MAX_AGE)
              => login.out = Returns(Some(LoginClaimsOf(login.query_params)))
        /\ ~(LoginWellSigned /\ LoginDated /\ Abs(LoginAge) <= LOGIN_MAX_AGE)
              => login.out.value = None
        /\ (LoginWellSigned /\ LoginDated /\ Abs(LoginAge) = LOGIN_MAX_AGE + 1)
              => login.out = Returns(None)
        /\ (LoginWellSigned /\ LoginDated /\ Abs(LoginAge) = LOGIN_MAX_AGE - 1)
              => login.out.value # None
\* An assertion dated LOGIN_MAX_AGE seconds ahead of the clock is accepted.
C23_Witness ==
    /\ LoginChecked
    /\ LoginWellSigned
    /\ LoginDated
    /\ LoginAge = -LOGIN_MAX_AGE
    /\ login.out.value # None

\* ---------------------------------------------------------------- C21
\* The exp of a session token, in seconds.
TokenExp(token) == Get(Get(token.payload_b64.of.body).exp)
\* GET /me took the cookie for a session: it answered with the record, or
\* with 404 for want of one.
MeAuthenticated == web.last.op = "me" /\ web.last.status \in {200, 404}
\* C21: whether a token is valid depends on the token, the server secret
\* and the time alone, whatever the store holds: GET /me takes a cookie for
\* a session exactly when parse_and_verify_session accepts it at that time,
\* and a token the callback minted is accepted at every time before its exp,
\* with its subject banned or deleted, registrations closed, or after a logout.
C21_ValidityIgnoresStore ==
    /\ web.last.op = "me" =>
         (MeAuthenticated <=>
            IsSome(parse_and_verify_session(web.last.token, web.secret, web.last.at).value))
    /\ \A i \in DOMAIN web.mints :
         (/\ web.last.op = "me"
          /\ web.last.token = web.mints[i].token
          /\ IntTime(web.last.at) < TokenExp(web.mints[i].token))
         => /\ MeAuthenticated
            /\ web.last.status = 200 => Get(web.last.content).user = web.mints[i].id
\* A minted token is taken for a session after the logout, with its subject
\* banned and deleted and registrations closed.
C21_Witness ==
    /\ web.last.op = "me"
    /\ web.last.status = 404
    /\ web.cookie = None
    /\ ~registrations_open
    /\ \E i \in DOMAIN web.mints :
         /\ web.last.token = web.mints[i].token
         /\ web.mints[i].id \in banned
         /\ ~IsSome(get_user_by_telegram(users, web.mints[i].id))

\* ---------------------------------------------------------------- C22
\* The callback found nothing to refuse: the assertion verified, it carried
\* an id, and the subject was neither banned nor kept out by closed
\* registrations.
LoginPassedChecks ==
    /\ web.last.op = "login"
    /\ web.last.status \notin {400, 401, 403}
\* C22: with no server signing secret configured, create_session_token
\* raises its configuration error and makes no token, and the login callback
\* answers with that error and sets no session cookie.
C22_NoSecretNoCookie ==
    ~IsSome(web.secret) =>
        /\ \A i \in TelegramIds, t \in WebInstants :
             create_session_token(i, web.secret, t) = Raises
        /\ web.mints = <<>>
        /\ web.cookie = None
        /\ web.last.set_cookie = None
        /\ LoginPassedChecks => /\ web.last.status = 500
                                /\ web.last.detail = "APP_SESSION_SECRET is not set"
\* A login that passed every check ends in the configuration error.
C22_Witness ==
    /\ ~IsSome(web.secret)
    /\ LoginPassedChecks
    /\ web.last.status = 500

\* ---------------------------------------------------------------- C24
\* C24: a login assertion is consumed once: presented to the callback a
\* second time, it does not mint a second session token.
C24_AssertionMintsOnce ==
    \A i, j \in DOMAIN web.mints :
        web.mints[i].assertion = web.mints[j].assertion => i = j

\* ---------------------------------------------------------------- C25
\* The callback minted a token in this step.
MintStep == web.stage = "up" /\ Len(web'.mints) > Len(web.mints)
LastMint == web'.mints[Len(web'.mints)]
\* C25: every token is minted in a request whose assertion verified and
\* carried the token's subject id, with the subject not banned at that
\* moment and either registered already or registrations open.
C25_MintOnlyAfterChecks ==
    [][MintStep =>
        /\ IsSome(verify_telegram_login_payload(LastMint.assertion, Some(BotToken),
                                                web.now).value)
        /\ LastMint.assertion.id = Some(IntText(LastMint.id))
        /\ Get(LastMint.token.payload_b64.of.body).telegram_id = LastMint.id
        /\ web'.last.assertion = Some(LastMint.assertion)
        /\ ~is_user_banned(banned, LastMint.id)
        /\ IsSome(get_user_by_telegram(users, LastMint.id)) \/ registrations_open]_vars
\* The callback minted a token and set the cookie, in a run where the owner
\* bans the subject.
C25_Witness ==
    /\ web.last.op = "login"
    /\ web.last.status = 302
    /\ web.mints # <<>>
    /\ banned # {}

\* ---------------------------------------------------------------- C26
\* C26: no HTTP read returns a participant's record or photo list to a
\* request that carries no valid, unexpired session token.
C26_ReadsNeedSession ==
    (web.last.op \in {"me", "photos"} /\ web.last.status = 200)
        => IsSome(parse_and_verify_session(web.last.token, web.secret, web.last.at).value)

\* ---------------------------------------------------------------- C27
\* handle_photo ends in this step, for the submission of the sender u.
PhotoEnds == IsSome(photo_pending) /\ photo_pending' = None
\* The object the submission puts.
PhotoKey == [user |-> Get(photo_pending), stamp |-> clock]
\* The owner deletes the participant of the photo record r in this step.
ParticipantDeleted(r) ==
    /\ \E row \in SeqToSet(users) : row.id = r.user_id
    /\ \A row \in SeqToSet(users') : row.id # r.user_id
\* C27: a submission that passed the checks creates exactly one photo
\* record, after its one put into the object store, and none when the put
\* fails or is not reached; and a record, once there, is changed by nothing
\* but the deletion of its participant.
C27_OneRecordPerPut ==
    [][/\ PhotoEnds =>
            /\ Len(photos') \in {Len(photos), Len(photos) + 1}
            /\ SubSeq(photos', 1, Len(photos)) = photos
            /\ Len(photos') = Len(photos) + 1 =>
                 /\ photos'[Len(photos')].object_key = PhotoKey
                 /\ objects' = objects \cup {PhotoKey}
                 /\ \E row \in SeqToSet(users') :
                      /\ row.telegram_id = Get(photo_pending)
                      /\ row.id = photos'[Len(photos')].user_id
            /\ Len(photos') = Len(photos) => objects' = objects
       /\ ~PhotoEnds =>
            /\ objects' = objects
            /\ \/ photos' = photos
               \/ /\ \A k \in DOMAIN photos : \/ \E j \in DOMAIN photos' : photos'[j] = photos[k]
                                              \/ ParticipantDeleted(photos[k])
                  /\ \E k \in DOMAIN photos : ParticipantDeleted(photos[k])
                  /\ photos' = SelectSeq(photos, LAMBDA r : ~ParticipantDeleted(r))]_vars
\* Two submissions were stored, each with its record.
C27_Witness ==
    /\ Len(photos) = 2
    /\ photo_pending = None
    /\ IsSome(reply)
    /\ Get(reply).text = ReceivedText

\* ---------------------------------------------------------------- C28
\* C28: a participant record is created only by a successful registration:
\* no step creates a record for an id that was not registered while
\* registrations are closed, or for a banned id.
C28_RecordsOnlyByRegistration ==
    [][\A u \in TelegramIds :
         (~IsSome(get_user_by_telegram(users, u)) /\ IsSome(get_user_by_telegram(users', u)))
            => registrations_open /\ ~is_user_banned(banned, u)]_vars

\* ---------------------------------------------------------------- C29
\* The caller c is inside a `with self._lock` block.
InStore(c) == lock.calls[c].todo # <<>> /\ Head(lock.calls[c].todo) # "acquire"
Waiting(c) == lock.calls[c].todo # <<>> /\ Head(lock.calls[c].todo) = "acquire"
\* C29: a call of the store holds the lock while it is inside its block and
\* at no other time, so the lock is free whenever no call is inside; no
\* caller waits for a lock it holds itself (delete_user's lookup included);
\* at most one call is inside the store at a time; and while a call is in
\* progress some call can take its next step.
C29_LockDiscipline ==
    /\ \A c \in Callers : InStore(c) <=> lock.holder = c
    /\ \A c \in Callers : ~(Waiting(c) /\ lock.holder = c)
    /\ Cardinality({c \in Callers : InStore(c)}) <= 1
    /\ (\E c \in Callers : lock.calls[c].todo # <<>>)
          => \E c \in Callers : InStore(c) \/ (Waiting(c) /\ lock.holder = 0)
\* delete_user has made its lookup and waits for the lock a second time
\* while another call is inside the store.
C29_Witness ==
    \E c, d \in Callers :
        /\ c # d
        /\ lock.calls[c].op = "delete_user"
        /\ IsSome(lock.calls[c].user)
        /\ Waiting(c)
        /\ InStore(d)

\* ---------------------------------------------------------------- C30
\* send_daily_prompt ends in this step, having sent to the participants and
\* recorded the prompt, and the loop goes to sleep on its next target.
BroadcastCompletes ==
    /\ pc = "broadcasting"
    /\ pc' = "sleeping"
    /\ last_prompt' # last_prompt
\* C30: with /prompts and /stats running at the await points of a
\* broadcast, a broadcast that completes on day D is followed by a sleep on a
\* target of a later day, so no day sees two broadcasts.
C30_NextTargetOnLaterDay ==
    [][BroadcastCompletes => DateOf(Get(target')) > DateOf(clock)]_vars

\* ---------------------------------------------------------------- C31
\* handle_photo makes its checks on a submission of u in this step.
PhotoChecked(u) ==
    /\ photo_updates' = photo_updates + 1
    /\ \/ photo_pending' = Some(u)
       \/ IsSome(reply') /\ Get(reply').to = u /\ Get(reply').update = photo_updates'
\* The prompt of the broadcast under way has been delivered to u, and no
\* more than the capture window has passed since the sleep ended on the
\* target, hence since that delivery.
JustDelivered(u) ==
    /\ pc = "broadcasting"
    /\ \E i \in DOMAIN attempts : attempts[i].to = u /\ attempts[i].ok
    /\ clock - Get(target) <= CAPTURE_WINDOW
\* C31: from the delivery of the prompt to a participant until 60 seconds
\* later that participant's submission passes the capture-window check, also
\* while the same broadcast is still delivering to other recipients.
C31_DeliveredCanSubmit ==
    [][\A u \in TelegramIds :
         (PhotoChecked(u) /\ JustDelivered(u) /\ ~is_user_banned(banned, u))
            => photo_pending' = Some(u)]_vars

\* ---------------------------------------------------------------- C32
\* The sleep ends in this step with nobody registered.
WakesOnNobody ==
    /\ pc = "sleeping"
    /\ users = <<>>
    /\ fetched' # fetched \/ target' # target \/ pc' # pc
\* C32: with an empty participant list the broadcast sends no message and
\* records nothing, and the loop neither stops nor spins: its next pass
\* obtains and persists a target strictly after now and sleeps on it.
C32_EmptyBroadcastNoOp ==
    [][WakesOnNobody =>
        /\ attempts' = <<>>
        /\ delivered' = delivered
        /\ UNCHANGED <<last_prompt, prompt_history>>
        /\ pc' = "sleeping"
        /\ IsSome(target')
        /\ Get(target') > clock
        /\ next_prompt' = set_next_prompt(target')]_vars
\* The loop sleeps on a target after now, after a broadcast that found
\* nobody.
C32_Witness ==
    /\ pc = "sleeping"
    /\ users = <<>>
    /\ fetched = Some([users |-> <<>>, banned_ids |-> {}])
    /\ Get(target) > clock
    /\ next_prompt = set_next_prompt(target)

\* ---------------------------------------------------------------- C33
\* The loop persists a target in this step.
LoopPersists == next_prompt' # next_prompt /\ writer' = "scheduler_loop"
\* The avoidance set of the loop's pass that ends this step: the minutes of
\* the latest PROMPT_MINUTE_HISTORY_DAYS - 1 rows of the history as the pass
\* finds it.
LoopExcluded ==
    SeqToSet(get_recent_prompt_minutes(prompt_history', PROMPT_MINUTE_HISTORY_DAYS - 1))
\* C33: the loop builds its avoidance set from at most
\* PROMPT_MINUTE_HISTORY_DAYS - 1 history rows, so the set never holds every
\* minute of the day and the fallback on a saturated set is never taken, and
\* the minute of day of every target the loop persists differs from the
\* minute of day of each of the PROMPT_MINUTE_HISTORY_DAYS - 1 most recently
\* recorded prompts.
C33_TargetAvoidsRecentMinutes ==
    [][LoopPersists =>
        /\ Cardinality(LoopExcluded) <= PROMPT_MINUTE_HISTORY_DAYS - 1
        /\ LoopExcluded # AllMinutes
        /\ IsSome(get_next_prompt(next_prompt'))
        /\ target' = get_next_prompt(next_prompt')
        /\ MinuteOfDay(Get(target')) \notin LoopExcluded]_vars
\* The history is full and holds every minute of the day, a broadcast has
\* been recorded, and the loop sleeps on the one minute its avoidance set
\* left.
C33_Witness ==
    /\ pc = "sleeping"
    /\ writer = "scheduler_loop"
    /\ attempts # <<>>
    /\ Len(prompt_history) = PROMPT_MINUTE_HISTORY_DAYS
    /\ Cardinality(SeqToSet(get_recent_prompt_minutes(prompt_history,
                                PROMPT_MINUTE_HISTORY_DAYS - 1)))
         = PROMPT_MINUTE_HISTORY_DAYS - 1
    /\ MinuteOfDay(Get(target))
         \notin SeqToSet(get_recent_prompt_minutes(prompt_history,
                                                   PROMPT_MINUTE_HISTORY_DAYS - 1))

====
